---------------------------- MODULE Spec2Model ----------------------------
(***************************************************************************)
(* Model of the Worker of react-native-job-queue (src/src/Worker.ts).      *)
(*                                                                         *)
(* One Worker object, with its configuration (concurrency, retries) and    *)
(* its counter executionCount, serves a bounded number of execute(rawJob)  *)
(* calls.  JavaScript runs every piece of synchronous code to completion,  *)
(* so an action is one such piece: the part of execute up to its await,    *)
(* the settling of a handler promise together with the promise reactions   *)
(* registered on it, the firing of a timer, and the part of execute after  *)
(* its await (onSuccess / catch / finally).  The handler (executer) is a   *)
(* promise-returning function whose promise fulfils or rejects at a time   *)
(* and with an outcome the environment chooses; each callback may throw.   *)
(***************************************************************************)
EXTENDS Integers, Sequences, FiniteSets

\* ---------------------------------------------------------------- bounds
MaxJobs == 2            \* number of execute calls made on the Worker
MaxConcurrency == 2     \* largest configured concurrency
MaxRetries == 2         \* largest configured retries
MaxInvocations == 4     \* handler invocations of one job that are explored

Jobs == 1..MaxJobs

VARIABLES
    concurrency,     \* Worker.concurrency (readonly)
    retries,         \* Worker.retries (readonly)
    executionCount,  \* Worker.executionCount
    pc,              \* per execute call: "idle" (not called), "await", "done"
    mode,            \* per call: the branch of lines 80-86 it took ("none"
                     \* before onStart has returned)
    log,             \* per call: the callbacks, handler starts and counter
                     \* decrement performed for the job, in order
    result,          \* per call: how the promise returned by execute settled
    awaited,         \* per call: the promise execute is suspended on
    handler,         \* per call: "none" or "running" (current invocation)
    invocations,     \* per call: handler invocations started so far
    failures,        \* per call: handler invocations that rejected so far
    retryCount,      \* per call: retryCount of the executeWithRetry frame
    timer,           \* per call: setTimeout of executeWithTimeout
    waitTimer,       \* per call: setTimeout of wait(timeout)
    threw,           \* per call: some callback of the job threw
    disciplined      \* every execute so far was called with a free slot

vars == <<concurrency, retries, executionCount, pc, mode, log, result,
          awaited, handler, invocations, failures, retryCount, timer,
          waitTimer, threw, disciplined>>

\* ---------------------------------------------------------------- values
\* An error value: its kind, a number (the handler invocation that produced
\* it, or the retry count of a retry-exhausted error) and, for the
\* retry-exhausted error, the invocation whose failure it embeds.
Err(kind, n, reason) == [kind |-> kind, n |-> n, reason |-> reason]
NoErr == Err("none", 0, 0)
DecodeErr == Err("decode", 0, 0)
HandlerErr(i) == Err("handler", i, 0)
TimeoutErr == Err("timeout", 0, 0)
RetryErr(count, reason) == Err("retry", count, reason.n)
CbErr(cb) == Err(cb, 0, 0)

Ev(what, e) == [what |-> what, err |-> e]

Pending == [st |-> "pending", err |-> NoErr]
Unset == [st |-> "none", err |-> NoErr]
Fulfilled == [st |-> "fulfilled", err |-> NoErr]
Rejected(e) == [st |-> "rejected", err |-> e]

\* ------------------------------------------------------------- accessors
\* Mutant of isBusy: busy only once the budget is exceeded.
isBusyWhenOver == executionCount > concurrency
isBusy == executionCount = concurrency
\* Mutant of availableExecuters: off by one.
availableExecutersOffByOne == concurrency - executionCount + 1
availableExecuters == concurrency - executionCount

\* Mutant of Mode: the timeout is tested before the retries.
ModeTimeoutFirst(r, t) ==
    IF t > 0 THEN "timeout"
    ELSE IF r > 0 THEN "retry"
    ELSE "plain"
\* The branch execute takes at Worker.ts:80-86.
Mode(r, t) ==
    IF r > 0 THEN "retry"
    ELSE IF t > 0 THEN "timeout"
    ELSE "plain"


\* Mutant of CountEnter: the increment is missing.
CountEnterMissing(c) == c
\* Line 77: executionCount++.
CountEnter(c) == c + 1

\* ---------------------------------------------- execute after the await
\* Mutant of AfterTry: an exception of onSuccess does not reach the catch
\* block (onSuccess invoked outside the try block, its error dropped).
AfterTryIgnoresCallback(res, tS) == res
\* The error with which control leaves the try block (NoErr: none), given
\* the error res of the awaited promise and whether onSuccess throws.
AfterTry(res, tS) == IF res = NoErr /\ tS THEN CbErr("onSuccess") ELSE res
LogTry(l, res) == IF res = NoErr THEN Append(l, Ev("onSuccess", NoErr)) ELSE l

\* Mutant of LogCatch: onFailure is invoked whether or not the try block
\* failed.
LogCatchAlways(l, e) == Append(l, Ev("onFailure", e))
\* The catch block: onFailure(job, error); throw error.
LogCatch(l, e) == IF e # NoErr THEN Append(l, Ev("onFailure", e)) ELSE l
\* Mutant of AfterCatch: the catch block does not rethrow.
AfterCatchSwallows(e, tF) == IF e # NoErr /\ tF THEN CbErr("onFailure") ELSE NoErr
AfterCatch(e, tF) == IF e # NoErr /\ tF THEN CbErr("onFailure") ELSE e

\* Mutant of CountFinally: the decrement is missing.
CountFinallyMissing(c) == c
\* The finally block: executionCount--; onCompletion(job).
CountFinally(c) == c - 1
\* Mutant of LogFinally: onCompletion is invoked before the decrement.
LogFinallyCompletionFirst(l) ==
    Append(Append(l, Ev("onCompletion", NoErr)), Ev("decrement", NoErr))
LogFinally(l) ==
    Append(Append(l, Ev("decrement", NoErr)), Ev("onCompletion", NoErr))
AfterFinally(e, tC) == IF tC THEN CbErr("onCompletion") ELSE e

Settled(e) == IF e = NoErr THEN Fulfilled ELSE Rejected(e)

\* Lines 87-94 for call j whose log so far is l and whose try block was left
\* with result res; tS, tF, tC: whether onSuccess, onFailure, onCompletion
\* throw when invoked.
Complete(j, l, res, tS, tF, tC) ==
    LET e1 == AfterTry(res, tS)
        l1 == LogTry(l, res)
        l2 == LogCatch(l1, e1)
        e2 == AfterCatch(e1, tF)
        l3 == LogFinally(l2)
        e3 == AfterFinally(e2, tC)
    IN  /\ log' = [log EXCEPT ![j] = l3]
        /\ result' = [result EXCEPT ![j] = Settled(e3)]
        /\ pc' = [pc EXCEPT ![j] = "done"]
        /\ threw' = [threw EXCEPT ![j] =
                        \/ @
                        \/ res = CbErr("onStart")
                        \/ res = NoErr /\ tS
                        \/ e1 # NoErr /\ tF
                        \/ tC]

\* ------------------------------------------------------------------ Init
Init ==
    /\ concurrency \in 1..MaxConcurrency
    /\ retries \in 0..MaxRetries
    /\ executionCount = 0
    /\ pc = [j \in Jobs |-> "idle"]
    /\ mode = [j \in Jobs |-> "none"]
    /\ log = [j \in Jobs |-> <<>>]
    /\ result = [j \in Jobs |-> Unset]
    /\ awaited = [j \in Jobs |-> Unset]
    /\ handler = [j \in Jobs |-> "none"]
    /\ invocations = [j \in Jobs |-> 0]
    /\ failures = [j \in Jobs |-> 0]
    /\ retryCount = [j \in Jobs |-> 0]
    /\ timer = [j \in Jobs |-> "none"]
    /\ waitTimer = [j \in Jobs |-> "none"]
    /\ threw = [j \in Jobs |-> FALSE]
    /\ disciplined = TRUE

\* --------------------------------------------------------------- execute
\* Calls are numbered in the order in which they are made.
NextCall(j) == pc[j] = "idle" /\ \A i \in Jobs : i < j => pc[i] # "idle"

\* Mutant of ExecuteDecodeFailure: the payload is parsed after the increment
\* of line 77, still outside the try block.
ExecuteDecodeAfterIncrement(j) ==
    /\ NextCall(j)
    /\ pc' = [pc EXCEPT ![j] = "done"]
    /\ result' = [result EXCEPT ![j] = Rejected(DecodeErr)]
    /\ executionCount' = CountEnter(executionCount)
    /\ UNCHANGED <<concurrency, retries, mode, log, awaited, handler,
                   invocations, failures, retryCount, timer, waitTimer,
                   threw, disciplined>>

\* execute(rawJob) with a payload JSON.parse rejects: the exception leaves
\* the async function at line 75, before the counter and the try block.
ExecuteDecodeFailure(j) ==
    /\ NextCall(j)
    /\ pc' = [pc EXCEPT ![j] = "done"]
    /\ result' = [result EXCEPT ![j] = Rejected(DecodeErr)]
    /\ UNCHANGED <<concurrency, retries, executionCount, mode, log,
                   awaited, handler, invocations, failures, retryCount,
                   timer, waitTimer, threw, disciplined>>

\* execute(rawJob), lines 73-79, with onStart throwing: catch and finally
\* run in the same synchronous piece.  (The timeout read at line 74 is not
\* used on this path, nor on the one above.)
ExecuteStartThrows(j, tF, tC) ==
    /\ NextCall(j)
    /\ disciplined' = (disciplined /\ availableExecuters > 0)
    /\ executionCount' = CountFinally(CountEnter(executionCount))
    /\ Complete(j, Append(log[j], Ev("onStart", NoErr)), CbErr("onStart"),
                FALSE, tF, tC)
    /\ UNCHANGED <<concurrency, retries, mode, awaited, handler,
                   invocations, failures, retryCount, timer, waitTimer>>

\* execute(rawJob), lines 73-86 up to the await: the counter is incremented,
\* onStart returns, the handler is invoked for the first time (with the
\* timer of executeWithTimeout in timeout-only mode).
Execute(j, t) ==
    /\ NextCall(j)
    /\ mode' = [mode EXCEPT ![j] = Mode(retries, t)]
    /\ disciplined' = (disciplined /\ availableExecuters > 0)
    /\ executionCount' = CountEnter(executionCount)
    /\ log' = [log EXCEPT ![j] =
                  Append(Append(@, Ev("onStart", NoErr)), Ev("executer", NoErr))]
    /\ pc' = [pc EXCEPT ![j] = "await"]
    /\ awaited' = [awaited EXCEPT ![j] = Pending]
    /\ handler' = [handler EXCEPT ![j] = "running"]
    /\ invocations' = [invocations EXCEPT ![j] = 1]
    /\ timer' = [timer EXCEPT ![j] =
                    IF Mode(retries, t) = "timeout" THEN "armed" ELSE @]
    /\ UNCHANGED <<concurrency, retries, result, failures, retryCount,
                   waitTimer, threw>>

\* ------------------------------------------------------ promise plumbing
\* Mutant of Race: a later settlement replaces an earlier one.
RaceLastWins(a, s) == s
\* Promise.race (line 102), and any promise: the first settlement wins.
Race(a, s) == IF a.st = "pending" THEN s ELSE a

\* The promise tmp (line 115) of the executeWithRetry frame with the given
\* retryCount settles with s.  execute awaits the frame with retryCount 0
\* (line 81); the promise of a deeper frame is consumed at lines 125-127,
\* where both its value and its error are turned into a value nobody reads.
SettleFrame(a, rc, s) == IF rc = 0 THEN Race(a, s) ELSE a

\* Line 119.
Exhausted(rc, r) == rc >= r

\* ---------------------------------------------------- handler and timers
\* Mutant of HandlerSucceeds: in retry mode a successful attempt, too, is
\* followed by wait(timeout) and another attempt.
HandlerSucceedsThenWaits(j) ==
    /\ handler[j] = "running"
    /\ handler' = [handler EXCEPT ![j] = "none"]
    /\ awaited' = [awaited EXCEPT ![j] =
                      IF mode[j] = "retry"
                      THEN SettleFrame(@, retryCount[j], Fulfilled)
                      ELSE Race(@, Fulfilled)]
    /\ waitTimer' = [waitTimer EXCEPT ![j] =
                        IF mode[j] = "retry" THEN "armed" ELSE @]
    /\ UNCHANGED <<concurrency, retries, executionCount, pc, mode, log,
                   result, invocations, failures, retryCount, timer,
                   threw, disciplined>>

\* The promise returned by the handler fulfils.
HandlerSucceeds(j) ==
    /\ handler[j] = "running"
    /\ handler' = [handler EXCEPT ![j] = "none"]
    /\ awaited' = [awaited EXCEPT ![j] =
                      IF mode[j] = "retry"
                      THEN SettleFrame(@, retryCount[j], Fulfilled)
                      ELSE Race(@, Fulfilled)]
    /\ UNCHANGED <<concurrency, retries, executionCount, pc, mode, log,
                   result, invocations, failures, retryCount, timer,
                   waitTimer, threw, disciplined>>

\* The promise returned by the handler rejects.  In retry mode the catch
\* handler of lines 118-130 runs: it rejects tmp when the retries are used
\* up and, in either case, goes on to wait(timeout) at line 124.
HandlerFails(j) ==
    LET e == HandlerErr(invocations[j])
        x == RetryErr(retryCount[j], e)
    IN  /\ handler[j] = "running"
        /\ handler' = [handler EXCEPT ![j] = "none"]
        /\ failures' = [failures EXCEPT ![j] =
                           IF @ < MaxInvocations THEN @ + 1 ELSE @]
        /\ IF mode[j] = "retry"
           THEN /\ awaited' = [awaited EXCEPT ![j] =
                                  IF Exhausted(retryCount[j], retries)
                                  THEN SettleFrame(@, retryCount[j], Rejected(x))
                                  ELSE @]
                /\ waitTimer' = [waitTimer EXCEPT ![j] = "armed"]
           ELSE /\ awaited' = [awaited EXCEPT ![j] = Race(@, Rejected(e))]
                /\ UNCHANGED waitTimer
        /\ UNCHANGED <<concurrency, retries, executionCount, pc, mode,
                       log, result, invocations, retryCount, timer, threw,
                       disciplined>>

\* The timer of wait(timeout) fires (lines 105, 124-125): the next frame of
\* executeWithRetry starts and invokes the handler again.  Nothing in the
\* code bounds the number of frames; the counters of a job saturate at
\* MaxInvocations, which then stands for "MaxInvocations or more", and the
\* log records the first MaxInvocations handler invocations.
WaitElapses(j) ==
    /\ waitTimer[j] = "armed"
    /\ waitTimer' = [waitTimer EXCEPT ![j] = "none"]
    /\ handler' = [handler EXCEPT ![j] = "running"]
    /\ IF invocations[j] < MaxInvocations
       THEN /\ retryCount' = [retryCount EXCEPT ![j] = @ + 1]
            /\ invocations' = [invocations EXCEPT ![j] = @ + 1]
            /\ log' = [log EXCEPT ![j] = Append(@, Ev("executer", NoErr))]
       ELSE UNCHANGED <<retryCount, invocations, log>>
    /\ UNCHANGED <<concurrency, retries, executionCount, pc, mode,
                   result, awaited, failures, timer, threw,
                   disciplined>>

\* The timer of executeWithTimeout fires (lines 98-100).
TimerFires(j) ==
    /\ timer[j] = "armed"
    /\ timer' = [timer EXCEPT ![j] = "fired"]
    /\ awaited' = [awaited EXCEPT ![j] = Race(@, Rejected(TimeoutErr))]
    /\ UNCHANGED <<concurrency, retries, executionCount, pc, mode, log,
                   result, handler, invocations, failures, retryCount,
                   waitTimer, threw, disciplined>>

\* execute resumes after its await (lines 87-94).
Resume(j, tS, tF, tC) ==
    /\ pc[j] = "await"
    /\ awaited[j].st \in {"fulfilled", "rejected"}
    /\ executionCount' = CountFinally(executionCount)
    /\ Complete(j, log[j], awaited[j].err, tS, tF, tC)
    /\ UNCHANGED <<concurrency, retries, mode, awaited, handler,
                   invocations, failures, retryCount, timer, waitTimer,
                   disciplined>>

\* ------------------------------------------------------- specifications
Timeouts == {0, 1}

Next ==
    \/ \E j \in Jobs : ExecuteDecodeFailure(j)
    \/ \E j \in Jobs, tF, tC \in BOOLEAN : ExecuteStartThrows(j, tF, tC)
    \/ \E j \in Jobs, t \in Timeouts : Execute(j, t)
    \/ \E j \in Jobs : HandlerSucceeds(j)
    \/ \E j \in Jobs : HandlerFails(j)
    \/ \E j \in Jobs : WaitElapses(j)
    \/ \E j \in Jobs : TimerFires(j)
    \/ \E j \in Jobs, tS, tF, tC \in BOOLEAN : Resume(j, tS, tF, tC)

Spec == Init /\ [][Next]_vars

\* Every handler promise settles, every timer fires, and a continuation
\* whose promise has settled is run by the event loop.
FairSpec ==
    /\ Spec
    /\ \A j \in Jobs :
          /\ WF_vars(HandlerSucceeds(j) \/ HandlerFails(j))
          /\ WF_vars(WaitElapses(j))
          /\ WF_vars(TimerFires(j))
          /\ WF_vars(\E tS, tF, tC \in BOOLEAN : Resume(j, tS, tF, tC))

\* ------------------------------------------------------ log observations
Count(l, what) == Cardinality({i \in 1..Len(l) : l[i].what = what})
IsCallback(e) == e.what \in {"onStart", "onSuccess", "onFailure", "onCompletion"}
Callbacks(l) == SelectSeq(l, IsCallback)
Last(l) == l[Len(l)]
Index(l, what) == CHOOSE i \in 1..Len(l) : l[i].what = what
InRetry(j) == mode[j] = "retry"
Running == {j \in Jobs : handler[j] = "running"}
InFlight == {j \in Jobs : pc[j] = "await"}

\* ------------------------------------------------------------------- C1
\* C1: in retry mode, once the handler has failed on every one of its
\* retries + 1 invocations, execute eventually rejects with the
\* retry-exhausted error that embeds the last failure and the count retries,
\* having invoked onFailure exactly once (with that error) and onCompletion
\* exactly once, unless a later invocation of the handler succeeds (the
\* handler of the claim fails on every invocation).
C1_AllFailed(j) ==
    /\ InRetry(j)
    /\ invocations[j] = retries + 1
    /\ failures[j] = invocations[j]

C1_Rejected(j) ==
    LET x == RetryErr(retries, HandlerErr(retries + 1))
    IN  /\ result[j].st = "rejected"
        /\ ~threw[j] => result[j].err = x
        /\ Count(log[j], "onFailure") = 1
        /\ log[j][Index(log[j], "onFailure")].err = x
        /\ Count(log[j], "onCompletion") = 1

\* The retry chain of the job has ended: in retry mode only a successful
\* handler invocation ends it.
C1_SomeSuccess(j) ==
    InRetry(j) /\ handler[j] = "none" /\ waitTimer[j] = "none"

C1_RetryExhaustedRejects ==
    \A j \in Jobs : C1_AllFailed(j) ~> (C1_Rejected(j) \/ C1_SomeSuccess(j))

\* ------------------------------------------------------------------- C2
\* C2: in retry mode, when the handler fails on its first k invocations
\* (1 <= k <= retries) and succeeds on the next one, execute eventually
\* resolves, after exactly k + 1 handler invocations, having invoked
\* onSuccess and then onCompletion.
C2_Recovered(j) ==
    /\ InRetry(j)
    /\ failures[j] \in 1..retries
    /\ invocations[j] = failures[j] + 1
    /\ handler[j] = "none"
    /\ waitTimer[j] = "none"

C2_Resolved(j) ==
    /\ pc[j] = "done"
    /\ ~threw[j] => result[j] = Fulfilled
    /\ invocations[j] = failures[j] + 1
    /\ Count(log[j], "onSuccess") = 1
    /\ Last(log[j]).what = "onCompletion"

C2_RetryRecovers == \A j \in Jobs : C2_Recovered(j) ~> C2_Resolved(j)

\* ------------------------------------------------------------------- C3
\* C3: with every handler promise settling and every timer firing, each
\* execute call that has incremented executionCount eventually settles,
\* having decremented the counter and invoked onCompletion.
C3_Released(j) ==
    /\ pc[j] = "done"
    /\ result[j].st \in {"fulfilled", "rejected"}
    /\ Count(log[j], "decrement") = 1
    /\ Count(log[j], "onCompletion") = 1

C3_CapacityReleased == \A j \in Jobs : (pc[j] = "await") ~> C3_Released(j)

\* ------------------------------------------------------------------- C4
\* C4: in retry mode one execute call causes at most retries + 1 handler
\* invocations, and none after the retry-exhausted error has been built.
C4_RetryBound ==
    \A j \in Jobs : InRetry(j) => invocations[j] <= retries + 1

\* ------------------------------------------------------------------- C5
\* C5 as stated: under any interleaving of execute calls availableExecuters
\* is never negative (executionCount never exceeds concurrency).
C5_NeverNegative == availableExecuters >= 0 /\ executionCount <= concurrency

\* C5 as amended: provided every execute call was made while
\* availableExecuters > 0, executionCount never exceeds concurrency.
C5_NeverNegativeIfDisciplined == disciplined => executionCount <= concurrency

C5_Witness ==
    /\ disciplined
    /\ isBusy
    /\ \E j \in Jobs : pc[j] = "done" /\ log[j] # <<>>

\* ------------------------------------------------------------------- C6
\* C6: executionCount is the number of execute calls that have performed
\* their increment and not yet run their finally block; it is never below 0
\* and availableExecuters never exceeds concurrency.
C6_CountIsInFlight ==
    /\ executionCount = Cardinality(InFlight)
    /\ executionCount >= 0
    /\ availableExecuters <= concurrency

C6_Witness ==
    \E j, k \in Jobs :
        /\ pc[j] = "done"
        /\ result[j] = Rejected(CbErr("onFailure"))
        /\ pc[k] = "await"

\* ------------------------------------------------------------------- C7
\* C7 as stated: with a caller that calls execute only while
\* availableExecuters > 0, the handler invocations started and not yet
\* settled never outnumber concurrency.
C7_RunningWithinBudget == disciplined => Cardinality(Running) <= concurrency

\* C7 as amended: with such a caller, the unsettled handler invocations of
\* execute calls that have not yet settled never outnumber concurrency.
C7_RunningInFlightWithinBudget ==
    disciplined => Cardinality(Running \cap InFlight) <= concurrency

C7_Witness ==
    /\ disciplined
    /\ Cardinality(Running \cap InFlight) = concurrency
    /\ Cardinality(Running) > concurrency

\* ------------------------------------------------------------------- C8
\* C8: an execute call whose payload cannot be deserialized never invokes
\* the handler and still invokes onFailure, with the decode error, followed
\* by onCompletion.
C8_DecodeFailureReported ==
    \A j \in Jobs :
        result[j] = Rejected(DecodeErr) =>
            /\ invocations[j] = 0
            /\ \E i, k \in 1..Len(log[j]) :
                  /\ i < k
                  /\ log[j][i] = Ev("onFailure", DecodeErr)
                  /\ log[j][k].what = "onCompletion"

\* ------------------------------------------------------------------- C9
\* C9: for an execute call none of whose callbacks throws, the callbacks of
\* the job occur in the order onStart, at most one of onSuccess / onFailure,
\* onCompletion; onStart precedes every handler invocation and nothing
\* follows onCompletion.
C9_Ordered(l) ==
    LET c == Callbacks(l)
    IN  /\ Len(c) >= 1 => c[1].what = "onStart"
        /\ Count(l, "onStart") <= 1
        /\ Count(l, "onSuccess") + Count(l, "onFailure") <= 1
        /\ Count(l, "onCompletion") <= 1
        /\ \A i \in 1..Len(c) : c[i].what = "onCompletion" => i = Len(c)
        /\ \A i \in 1..Len(l) :
              l[i].what = "executer" => \E k \in 1..(i - 1) : l[k].what = "onStart"

C9_LifecycleOrder == \A j \in Jobs : ~threw[j] => C9_Ordered(log[j])

C9_Witness ==
    \E j, k \in Jobs :
        /\ j < k
        /\ pc[j] = "await"
        /\ pc[k] = "done"
        /\ ~threw[k]
        /\ Len(Callbacks(log[k])) = 3
        /\ Callbacks(log[k])[2].what = "onFailure"

\* ------------------------------------------------------------------ C10
\* C10: an execute call that leaves its try block decrements executionCount
\* exactly once and invokes onCompletion exactly once, as its last callback;
\* afterwards the call invokes nothing and the counter is decremented only
\* by another call that completes.
C10_Step(j) ==
    /\ (pc[j] # "done" /\ pc'[j] = "done" /\ log'[j] # <<>>) =>
          /\ executionCount' =
                IF pc[j] = "await" THEN executionCount - 1 ELSE executionCount
          /\ Count(log'[j], "decrement") = 1
          /\ Count(log'[j], "onCompletion") = 1
          /\ Last(Callbacks(log'[j])).what = "onCompletion"
    /\ pc[j] = "done" => pc'[j] = "done" /\ log'[j] = log[j]

C10_GuaranteedCompletion ==
    [][/\ \A j \in Jobs : C10_Step(j)
       /\ executionCount' < executionCount =>
             \E j \in Jobs : pc[j] = "await" /\ pc'[j] = "done"]_vars

C10_Witness ==
    \E j \in Jobs :
        /\ pc[j] = "done"
        /\ executionCount = 0
        /\ result[j] = Rejected(CbErr("onSuccess"))
        /\ Count(log[j], "onFailure") = 1
        /\ Last(log[j]).what = "onCompletion"

\* ------------------------------------------------------------------ C11
\* C11: in timeout-only mode the first of the timer and the handler to
\* settle decides what execute reports: the timeout error if the timer fires
\* while the handler is still running (the handler goes on running), the
\* handler's outcome if the handler settles while the timer is still armed.
\* The later event of the loser invokes no callback and changes neither
\* executionCount nor the reported result.
C11_TimerFired(j) == timer[j] = "armed" /\ timer'[j] = "fired"
C11_HandlerSettled(j) == handler[j] = "running" /\ handler'[j] = "none"

C11_Step(j) ==
    mode[j] = "timeout" =>
        /\ (C11_TimerFired(j) /\ handler[j] = "running") =>
              /\ awaited'[j] = Rejected(TimeoutErr)
              /\ handler'[j] = "running"
        /\ (C11_HandlerSettled(j) /\ timer[j] = "armed") =>
              awaited'[j] = IF failures'[j] > failures[j]
                            THEN Rejected(HandlerErr(1)) ELSE Fulfilled
        /\ (\/ C11_TimerFired(j) /\ handler[j] = "none"
            \/ C11_HandlerSettled(j) /\ timer[j] = "fired") =>
              /\ log'[j] = log[j]
              /\ executionCount' = executionCount
              /\ awaited'[j] = awaited[j]
              /\ result'[j] = result[j]
              /\ pc'[j] = pc[j]
        /\ (pc[j] = "await" /\ pc'[j] = "done" /\ ~threw'[j]) =>
              /\ result'[j] = Settled(awaited[j].err)
              /\ awaited[j] = Rejected(TimeoutErr) =>
                    Callbacks(log'[j]) = << Ev("onStart", NoErr),
                                            Ev("onFailure", TimeoutErr),
                                            Ev("onCompletion", NoErr) >>

C11_FirstToSettleWins == [][\A j \in Jobs : C11_Step(j)]_vars

C11_Witness ==
    \E j \in Jobs :
        /\ mode[j] = "timeout"
        /\ pc[j] = "done"
        /\ result[j] = Rejected(TimeoutErr)
        /\ handler[j] = "none"
        /\ Len(Callbacks(log[j])) = 3

\* ------------------------------------------------------------------ C12
\* C12: whenever as many execute calls are in flight as concurrency allows,
\* availableExecuters is 0 and isBusy is true (isBusy is true exactly when
\* executionCount = concurrency); the step in which the first of them
\* completes, by success or failure, leaves availableExecuters = 1 and isBusy
\* false.
C12_Full == Cardinality(InFlight) = concurrency

C12_BusyUntilFirstCompletion ==
    [][/\ C12_Full' => (availableExecuters' = 0 /\ isBusy')
       /\ isBusy' <=> (executionCount' = concurrency)
       /\ (C12_Full /\ \E j \in Jobs : pc[j] = "await" /\ pc'[j] = "done") =>
             (availableExecuters' = 1 /\ ~isBusy')]_vars

C12_Witness ==
    \E j, k \in Jobs :
        /\ concurrency = 2
        /\ pc[j] = "done"
        /\ invocations[j] = 1
        /\ result[j].st = "rejected"
        /\ pc[k] = "await"
        /\ availableExecuters = 1
        /\ ~isBusy

\* ------------------------------------------------------------------ C13
\* C13: in plain mode, when no callback throws, the handler is invoked
\* exactly once and onCompletion exactly once; a handler success gives
\* onSuccess, no onFailure and a resolved execute; a handler failure e gives
\* onFailure with e, no onSuccess and an execute rejected with e.
C13_Plain(j) ==
    LET e == HandlerErr(1)
    IN  /\ invocations[j] = 1
        /\ Count(log[j], "executer") = 1
        /\ Count(log[j], "onCompletion") = 1
        /\ IF failures[j] = 0
           THEN /\ result[j] = Fulfilled
                /\ Count(log[j], "onSuccess") = 1
                /\ Count(log[j], "onFailure") = 0
           ELSE /\ result[j] = Rejected(e)
                /\ Count(log[j], "onFailure") = 1
                /\ log[j][Index(log[j], "onFailure")].err = e
                /\ Count(log[j], "onSuccess") = 0

C13_PlainOutcome ==
    \A j \in Jobs :
        (mode[j] = "plain" /\ pc[j] = "done" /\ ~threw[j]) => C13_Plain(j)

C13_Witness ==
    \E j \in Jobs :
        /\ mode[j] = "plain"
        /\ pc[j] = "done"
        /\ ~threw[j]
        /\ result[j] = Rejected(HandlerErr(1))

\* ------------------------------------------------------------------ C14
\* C14: the mode of an execute call is decided by (retries, timeout) alone:
\* retry when retries > 0, whatever the timeout; timeout-only when
\* retries = 0 and timeout > 0; plain when both are 0.  A call runs the
\* machinery of its mode only: a retry call arms no deadline and never
\* produces a timeout error, the other modes never wait or retry.
C14_Selected(r, t) ==
    CASE r > 0 -> "retry"
      [] r = 0 /\ t > 0 -> "timeout"
      [] r = 0 /\ t = 0 -> "plain"

C14_NoTimeoutError(j) ==
    /\ awaited[j].err # TimeoutErr
    /\ result[j].err # TimeoutErr
    /\ \A i \in 1..Len(log[j]) : log[j][i].err # TimeoutErr

C14_OneMode(j) ==
    /\ pc[j] = "await" => mode[j] \in {"retry", "timeout", "plain"}
    /\ (retries > 0 /\ pc[j] = "await") => mode[j] = "retry"
    /\ mode[j] = "retry" => (timer[j] = "none" /\ C14_NoTimeoutError(j))
    /\ mode[j] = "timeout" =>
          (waitTimer[j] = "none" /\ invocations[j] = 1 /\ retryCount[j] = 0)
    /\ mode[j] = "plain" =>
          /\ timer[j] = "none" /\ waitTimer[j] = "none"
          /\ invocations[j] = 1 /\ retryCount[j] = 0
          /\ C14_NoTimeoutError(j)

C14_ModeSelection ==
    [][/\ \A j \in Jobs, t \in Timeouts :
             Execute(j, t) => mode'[j] = C14_Selected(retries, t)
       /\ \A j \in Jobs : C14_OneMode(j)']_vars

C14_Witness ==
    \E j \in Jobs :
        /\ retries > 0
        /\ mode[j] = "retry"
        /\ invocations[j] >= 2
        /\ timer[j] = "none"

\* ------------------------------------------------------------------ C15
\* C15: execute increments executionCount in the synchronous piece that the
\* call itself runs, before its first await, so the caller's next read of
\* availableExecuters sees the call; a caller that calls execute only after
\* reading availableExecuters > 0 never drives executionCount above
\* concurrency, whatever handlers, timers and completions interleave.
C15_CheckThenDispatch ==
    [][/\ \A j \in Jobs :
             (pc[j] = "idle" /\ pc'[j] = "await") =>
                 /\ executionCount' = executionCount + 1
                 /\ availableExecuters' = availableExecuters - 1
       /\ \A j \in Jobs :
             (pc[j] = "idle" /\ pc'[j] # "idle" /\ availableExecuters > 0) =>
                 executionCount' <= concurrency
       /\ disciplined' => executionCount' <= concurrency]_vars

C15_Witness ==
    /\ disciplined
    /\ concurrency = 2
    /\ InFlight = Jobs
    /\ availableExecuters = 0

\* ------------------------------------------------------------------ C16
\* C16: within one execute call in retry mode the handler attempts are
\* sequential: an attempt after the first starts exactly when the delay that
\* followed a failed attempt elapses, never while another attempt of the job
\* is running; a delay starts only when an attempt fails; a successful
\* attempt is followed by no delay and no attempt, and a success of the
\* first attempt resolves execute after one invocation.
C16_Step(j) ==
    mode[j] = "retry" =>
        /\ (handler[j] = "none" /\ handler'[j] = "running") =>
              /\ waitTimer[j] = "armed" /\ waitTimer'[j] = "none"
              /\ failures[j] >= 1
              /\ invocations[j] < MaxInvocations =>
                    /\ invocations'[j] = invocations[j] + 1
                    /\ failures[j] = invocations[j]
        /\ (waitTimer[j] = "armed" /\ waitTimer'[j] = "none") =>
              (handler[j] = "none" /\ handler'[j] = "running")
        /\ (waitTimer[j] = "none" /\ waitTimer'[j] = "armed") =>
              /\ handler[j] = "running" /\ handler'[j] = "none"
              /\ failures'[j] > failures[j] \/ failures[j] = MaxInvocations
        /\ invocations'[j] # invocations[j] =>
              (handler[j] = "none" /\ handler'[j] = "running")
        /\ HandlerSucceeds(j) =>
              /\ handler'[j] = "none" /\ waitTimer'[j] = "none"
              /\ retryCount[j] = 0 => awaited'[j] = Fulfilled
        /\ (handler[j] = "none" /\ waitTimer[j] = "none") =>
              /\ handler'[j] = "none" /\ waitTimer'[j] = "none"
              /\ invocations'[j] = invocations[j]
        /\ ~(handler'[j] = "running" /\ waitTimer'[j] = "armed")
        /\ result'[j] = Fulfilled => (invocations'[j] = 1 /\ failures'[j] = 0)

C16_RetrySequencing == [][\A j \in Jobs : C16_Step(j)]_vars

C16_Witness ==
    \E j \in Jobs :
        /\ mode[j] = "retry"
        /\ invocations[j] = 3
        /\ failures[j] = 2
        /\ handler[j] = "none"
        /\ waitTimer[j] = "none"

\* ------------------------------------------------------------------ C17
\* C17: for each execute call the decrement of executionCount comes after the
\* job's onSuccess / onFailure and immediately before its onCompletion: the
\* job still holds its slot while onSuccess or onFailure runs, and the slot
\* is already free while onCompletion runs.
C17_Ordered(l) ==
    LET d == Index(l, "decrement")
    IN  /\ Count(l, "decrement") = 1
        /\ d < Len(l)
        /\ l[d + 1].what = "onCompletion"
        /\ \A i \in 1..Len(l) :
              l[i].what \in {"onSuccess", "onFailure"} => i < d
        /\ \E i \in 1..(d - 1) : l[i].what \in {"onSuccess", "onFailure"}

C17_SlotReleaseOrder ==
    \A j \in Jobs :
        /\ (pc[j] = "done" /\ log[j] # <<>>) => C17_Ordered(log[j])
        /\ pc[j] # "done" => Count(log[j], "decrement") = 0

C17_Witness ==
    \E j \in Jobs :
        /\ pc[j] = "done"
        /\ ~threw[j]
        /\ log[j] = << Ev("onStart", NoErr), Ev("executer", NoErr),
                       Ev("onSuccess", NoErr), Ev("decrement", NoErr),
                       Ev("onCompletion", NoErr) >>

\* ------------------------------------------------------------------ C18
\* C18: when the handler succeeds and onSuccess throws c, onFailure is invoked
\* for the same job with c, the counter is decremented, onCompletion is
\* invoked once and execute rejects (with c, unless onFailure or onCompletion
\* throws too); when onStart throws, the handler is never invoked, onFailure
\* receives the error of onStart and the same completion follows.
C18_SuccessThrows(j) ==
    LET c == CbErr("onSuccess")
    IN  \A tF, tC \in BOOLEAN :
            (awaited[j] = Fulfilled /\ Resume(j, TRUE, tF, tC)) =>
                /\ log'[j] = log[j] \o << Ev("onSuccess", NoErr),
                                          Ev("onFailure", c),
                                          Ev("decrement", NoErr),
                                          Ev("onCompletion", NoErr) >>
                /\ executionCount' = executionCount - 1
                /\ result'[j].st = "rejected"
                /\ (~tF /\ ~tC) => result'[j] = Rejected(c)

C18_StartThrows(j) ==
    LET c == CbErr("onStart")
    IN  \A tF, tC \in BOOLEAN :
            ExecuteStartThrows(j, tF, tC) =>
                /\ log'[j] = << Ev("onStart", NoErr), Ev("onFailure", c),
                                Ev("decrement", NoErr),
                                Ev("onCompletion", NoErr) >>
                /\ executionCount' = executionCount
                /\ result'[j].st = "rejected"
                /\ (~tF /\ ~tC) => result'[j] = Rejected(c)

C18_ThrowingCallbacks ==
    [][\A j \in Jobs :
          /\ C18_SuccessThrows(j)
          /\ C18_StartThrows(j)
          /\ (pc'[j] = "done" /\ mode'[j] = "none") =>
                (invocations'[j] = 0 /\ handler'[j] = "none")]_vars

C18_Witness ==
    \E j, k \in Jobs :
        /\ result[j] = Rejected(CbErr("onSuccess"))
        /\ \E i \in 1..Len(log[j]) :
              log[j][i] = Ev("onFailure", CbErr("onSuccess"))
        /\ result[k] = Rejected(CbErr("onStart"))
        /\ invocations[k] = 0

\* ------------------------------------------------------------------ C19
\* C19: an execute call whose payload fails to deserialize leaves
\* executionCount, availableExecuters and isBusy as they were, never invokes
\* the handler or a callback, and changes nothing of any other call of the
\* same Worker.
C19_DecodeFails(j) == pc[j] = "idle" /\ result'[j] = Rejected(DecodeErr)

C19_OthersUntouched(j) ==
    \A k \in Jobs \ {j} :
        /\ pc'[k] = pc[k] /\ mode'[k] = mode[k] /\ log'[k] = log[k]
        /\ result'[k] = result[k] /\ awaited'[k] = awaited[k]
        /\ handler'[k] = handler[k] /\ invocations'[k] = invocations[k]
        /\ failures'[k] = failures[k] /\ retryCount'[k] = retryCount[k]
        /\ timer'[k] = timer[k] /\ waitTimer'[k] = waitTimer[k]

C19_DecodeFailureFrame ==
    [][\A j \in Jobs :
          /\ C19_DecodeFails(j) =>
                /\ executionCount' = executionCount
                /\ availableExecuters' = availableExecuters
                /\ isBusy' = isBusy
                /\ C19_OthersUntouched(j)
          /\ result'[j] = Rejected(DecodeErr) =>
                /\ invocations'[j] = 0 /\ handler'[j] = "none"
                /\ log'[j] = <<>> /\ timer'[j] = "none"]_vars

C19_Witness ==
    \E j, k \in Jobs :
        /\ result[j] = Rejected(DecodeErr)
        /\ pc[k] = "await" /\ handler[k] = "running"
        /\ executionCount = 1

=============================================================================
